---- MODULE Spec2Model ----
(***************************************************************************)
(* Model of scripts/generate_schema.py: ConfigSchemaGenerator, the static  *)
(* scanner that derives the OM1 configuration schema from syntax trees.    *)
(*                                                                         *)
(* Python strings that the generator inspects character by character are   *)
(* tuples of one-character strings; the generator's own output literals    *)
(* ("string", "number", "input", ...) are TLA+ strings.  A syntax tree     *)
(* node is a record whose field k is the node's ast class.                 *)
(***************************************************************************)
EXTENDS Integers, Sequences, FiniteSets, TLC

VARIABLES
    pc,            \* position of the routine under analysis
    class_node,    \* the ast.ClassDef handed to _extends / _parse_getattr
    base_classes,  \* the marker names handed to _extends
    extends_ret,   \* value returned by _extends
    getattr_ret,   \* value returned by _parse_getattr
    llm_config,    \* the file at llm_config_path (llm/__init__.py)
    pydantic_ret,  \* value returned by _parse_pydantic_class
    fs,            \* the source tree under root_dir/src
    inputs,        \* generate(): result of scan_inputs
    llms,          \* generate(): result of scan_llms
    backgrounds,   \* generate(): result of scan_backgrounds
    actions,       \* generate(): result of scan_actions
    hooks          \* generate(): result of scan_hooks

vars == <<pc, class_node, base_classes, extends_ret, getattr_ret, llm_config,
          pydantic_ret, fs, inputs, llms, backgrounds, actions, hooks>>

\* Value of a variable that the routine under analysis does not use.
Unused == <<>>

-----------------------------------------------------------------------------
(* Bounds of the explored inputs. *)

\* Longest list of declared bases of a class handed to _extends.
MaxBases == 2

\* Most statements in the __init__ of a class handed to _parse_getattr.
MaxStmts == 2

\* Most statements in the body of the class handed to _parse_pydantic_class.
MaxItems == 2

\* Longest directory listing of a scanned plugin, connector or hook directory.
MaxFiles == 2

-----------------------------------------------------------------------------
(* String literals of the program. *)

Str_config == <<"c", "o", "n", "f", "i", "g">>
Str_getattr == <<"g", "e", "t", "a", "t", "t", "r">>
Str_init == <<"_", "_", "i", "n", "i", "t", "_", "_">>
Str_model_config == <<"m", "o", "d", "e", "l", "_", "c", "o", "n", "f", "i", "g">>
Str_default == <<"d", "e", "f", "a", "u", "l", "t">>
Str_SKIP == <<"_", "_", "S", "K", "I", "P", "_", "_">>
Str_init_py == <<"_", "_", "i", "n", "i", "t", "_", "_", ".", "p", "y">>
Str_dot_py == <<".", "p", "y">>
Str_Connector == <<"C", "o", "n", "n", "e", "c", "t", "o", "r">>
Str_LLM == <<"L", "L", "M">>
Str_LLMConfig == <<"L", "L", "M", "C", "o", "n", "f", "i", "g">>
Str_FuserInput == <<"F", "u", "s", "e", "r", "I", "n", "p", "u", "t">>
Str_Sensor == <<"S", "e", "n", "s", "o", "r">>
Str_Background == <<"B", "a", "c", "k", "g", "r", "o", "u", "n", "d">>
Str_pycache == <<"_", "_", "p", "y", "c", "a", "c", "h", "e", "_", "_">>
Str_str == <<"s", "t", "r">>
Str_string == <<"s", "t", "r", "i", "n", "g">>
Str_int == <<"i", "n", "t">>
Str_float == <<"f", "l", "o", "a", "t">>
Str_bool == <<"b", "o", "o", "l">>

-----------------------------------------------------------------------------
(* Sequences and Python string operations. *)

Range(s) == {s[i] : i \in DOMAIN s}

SeqsUpTo(S, n) == UNION {[1..k -> S] : k \in 0..n}

\* sub in s, for Python strings.
Contains(sub, s) ==
    \E i \in 0..(Len(s) - Len(sub)) : SubSeq(s, i + 1, i + Len(sub)) = sub

\* s.startswith(p)
startswith(s, p) == Len(s) >= Len(p) /\ SubSeq(s, 1, Len(p)) = p

\* s.endswith(p)
endswith(s, p) ==
    Len(s) >= Len(p) /\ SubSeq(s, Len(s) - Len(p) + 1, Len(s)) = p

Lowers == <<"a", "b", "c", "d", "e", "f", "g", "h", "i", "j", "k", "l", "m",
            "n", "o", "p", "q", "r", "s", "t", "u", "v", "w", "x", "y", "z">>

Uppers == <<"A", "B", "C", "D", "E", "F", "G", "H", "I", "J", "K", "L", "M",
            "N", "O", "P", "Q", "R", "S", "T", "U", "V", "W", "X", "Y", "Z">>

islower(c) == c \in Range(Lowers)

isupper(c) == c \in Range(Uppers)

\* A cased character: one that str.title() treats as part of a word.
iscased(c) == islower(c) \/ isupper(c)

upper(c) ==
    IF islower(c) THEN Uppers[CHOOSE i \in DOMAIN Lowers : Lowers[i] = c] ELSE c

lower(c) ==
    IF isupper(c) THEN Lowers[CHOOSE i \in DOMAIN Uppers : Uppers[i] = c] ELSE c

\* s.replace(old, new) for one-character old and new.
replace(s, old, new) == [i \in DOMAIN s |-> IF s[i] = old THEN new ELSE s[i]]

\* str.title(): scanning left to right, a cased character that follows an
\* uncased one (or starts the string) is upper-cased, a cased character that
\* follows a cased one is lower-cased, every other character is kept.
RECURSIVE title_from(_, _)
title_from(s, previous_is_cased) ==
    IF s = <<>> THEN <<>>
    ELSE LET c == Head(s) IN
         <<IF previous_is_cased THEN lower(c) ELSE upper(c)>>
             \o title_from(Tail(s), iscased(c))

title(s) == title_from(s, FALSE)

-----------------------------------------------------------------------------
(* Python values held by ast.Constant nodes.  t is the value's class, n   *)
(* its number (0 or 1 for a bool), s its text.                             *)

PyNone == [t |-> "NoneType", n |-> 0, s |-> <<>>]

PyBool(b) == [t |-> "bool", n |-> IF b THEN 1 ELSE 0, s |-> <<>>]

PyInt(n) == [t |-> "int", n |-> n, s |-> <<>>]

\* The float n.5
PyFloat(n) == [t |-> "float", n |-> n, s |-> <<>>]

PyStr(s) == [t |-> "str", n |-> 0, s |-> s]

\* isinstance(v, bool)
isinstance_bool(v) == v.t = "bool"

\* isinstance(v, (int, float)): bool is a subclass of int.
isinstance_int_float(v) == v.t \in {"bool", "int", "float"}

\* v is not None
is_not_None(v) == v.t # "NoneType"

-----------------------------------------------------------------------------
(* Syntax tree nodes. *)

Name(id) == [k |-> "Name", id |-> id]

Attribute(value, attr) == [k |-> "Attribute", value |-> value, attr |-> attr]

Subscript(value, slice) == [k |-> "Subscript", value |-> value, slice |-> slice]

Constant(value) == [k |-> "Constant", value |-> value]

Call(func, args) == [k |-> "Call", func |-> func, args |-> args]

\* A tuple expression, as in Dict[str, int]
TupleExpr(elts) == [k |-> "Tuple", elts |-> elts]

\* class name(bases, keywords): docstring; body
ClassDef(name, bases, keywords, doc, body) ==
    [k |-> "ClassDef", name |-> name, bases |-> bases, keywords |-> keywords,
     doc |-> doc, body |-> body]

\* ast.get_docstring(node) or ""
get_docstring(node) == node.doc

-----------------------------------------------------------------------------
(* _extends and _extends_connector *)

\* A matcher by substring, the way _extends_connector matches.
_extends_substring(node, markers) ==
    \E i \in DOMAIN node.bases :
        LET base == node.bases[i] IN
        \/ base.k = "Name" /\ \E m \in Range(markers) : Contains(m, base.id)
        \/ /\ base.k = "Subscript"
           /\ base.value.k = "Name"
           /\ \E m \in Range(markers) : Contains(m, base.value.id)

\* The loop returns at the first matching base, so it returns True exactly
\* when some base matches.
_extends(node, markers) ==
    \E i \in DOMAIN node.bases :
        LET base == node.bases[i] IN
        \/ base.k = "Name" /\ base.id \in Range(markers)
        \/ /\ base.k = "Subscript"
           /\ base.value.k = "Name"
           /\ base.value.id \in Range(markers)

_extends_connector(node) ==
    \E i \in DOMAIN node.bases :
        LET base == node.bases[i] IN
        \/ base.k = "Name" /\ Contains(Str_Connector, base.id)
        \/ /\ base.k = "Subscript"
           /\ base.value.k = "Name"
           /\ Contains(Str_Connector, base.value.id)

\* The marker lists the category scans pass to _extends.
InputMarkers == <<Str_FuserInput, Str_Sensor>>

LlmMarkers == <<Str_LLM>>

BackgroundMarkers == <<Str_Background>>

-----------------------------------------------------------------------------
(* _extends applied to bounded class definitions. *)

Str_SensorBase == Str_Sensor \o <<"B", "a", "s", "e">>
Str_T == <<"T">>
Str_plugins == <<"p", "l", "u", "g", "i", "n", "s">>
Str_metaclass == <<"m", "e", "t", "a", "c", "l", "a", "s", "s">>
Str_Foo == <<"F", "o", "o">>

\* Base expressions: plain names (a marker of each list, a name containing a
\* marker, an unrelated name), attribute accesses, and subscripts over each.
BaseExprs ==
    { Name(Str_Sensor), Name(Str_LLM), Name(Str_SensorBase), Name(Str_Foo),
      Attribute(Name(Str_plugins), Str_Sensor),
      Subscript(Name(Str_Sensor), Name(Str_T)),
      Subscript(Name(Str_Background), Name(Str_T)),
      Subscript(Name(Str_Foo), Name(Str_Sensor)),
      Subscript(Name(Str_SensorBase), Name(Str_T)),
      Subscript(Attribute(Name(Str_plugins), Str_Sensor), Name(Str_T)) }

\* Keyword arguments of a class statement: none, or metaclass=<marker>.
KeywordLists ==
    { <<>>, <<[arg |-> Str_metaclass, value |-> Name(Str_Sensor)]>> }

ExtendsClassNodes ==
    { ClassDef(Str_Foo, bases, keywords, <<>>, <<>>) :
        bases \in SeqsUpTo(BaseExprs, MaxBases), keywords \in KeywordLists }

MarkerLists == {InputMarkers, LlmMarkers, BackgroundMarkers}

ExtendsInit ==
    /\ pc = "call"
    /\ class_node \in ExtendsClassNodes
    /\ base_classes \in MarkerLists
    /\ extends_ret = Unused
    /\ getattr_ret = Unused
    /\ llm_config = Unused
    /\ pydantic_ret = Unused
    /\ fs = Unused
    /\ inputs = Unused
    /\ llms = Unused
    /\ backgrounds = Unused
    /\ actions = Unused
    /\ hooks = Unused

ExtendsCall ==
    /\ pc = "call"
    /\ extends_ret' = _extends(class_node, base_classes)
    /\ pc' = "done"
    /\ UNCHANGED <<class_node, base_classes, getattr_ret, llm_config,
                   pydantic_ret, fs, inputs, llms, backgrounds, actions, hooks>>

ExtendsNext == ExtendsCall

SpecExtends == ExtendsInit /\ [][ExtendsNext]_vars

\* A declared base that is a plain name equal to a marker.
IsMarkerName(base, markers) ==
    base.k = "Name" /\ \E j \in DOMAIN markers : markers[j] = base.id

\* A declared base that is a subscript whose value is a plain name equal to a
\* marker.
IsMarkerSubscript(base, markers) ==
    /\ base.k = "Subscript"
    /\ base.value.k = "Name"
    /\ \E j \in DOMAIN markers : markers[j] = base.value.id

MatchingBases(node, markers) ==
    { i \in DOMAIN node.bases :
        IsMarkerName(node.bases[i], markers)
            \/ IsMarkerSubscript(node.bases[i], markers) }

\* C7: _extends returns true if and only if at least one declared base is a
\* plain name equal to a marker or a subscript whose value is a plain name
\* equal to a marker; attribute bases, names that only contain a marker and
\* keyword arguments never make it true.
C7_ExtendsIffMarkerBase ==
    pc = "done" =>
        /\ extends_ret = (Cardinality(MatchingBases(class_node, base_classes)) > 0)
        /\ (\A i \in DOMAIN class_node.bases :
                \/ class_node.bases[i].k = "Attribute"
                \/ /\ class_node.bases[i].k = "Name"
                   /\ class_node.bases[i].id \notin Range(base_classes))
            => extends_ret = FALSE

\* Reached: a class whose bases are module.Sensor and, as a name, SensorBase,
\* with metaclass=Sensor, checked against the input markers and rejected, and
\* (other run) a Sensor[T] base accepted.
C7_Witness ==
    /\ pc = "done"
    /\ base_classes = InputMarkers
    /\ class_node.bases = <<Attribute(Name(Str_plugins), Str_Sensor), Name(Str_SensorBase)>>
    /\ class_node.keywords # <<>>
    /\ extends_ret = FALSE

-----------------------------------------------------------------------------
(* Statements, and ast.walk. *)

\* The absent node: item.value of an annotation without a default.
NoNode == [k |-> "None"]

\* def name(args): body.  args is the ast.arguments record.
FunctionDef(name, args, body) ==
    [k |-> "FunctionDef", name |-> name, args |-> args, body |-> body]

\* async def name(args): body
AsyncFunctionDef(name, args, body) ==
    [k |-> "AsyncFunctionDef", name |-> name, args |-> args, body |-> body]

\* target = value
Assign(target, value) == [k |-> "Assign", target |-> target, value |-> value]

\* target: annotation = value
AnnAssign(target, annotation, value) ==
    [k |-> "AnnAssign", target |-> target, annotation |-> annotation,
     value |-> value]

\* -operand
UnaryOp(operand) == [k |-> "UnaryOp", operand |-> operand]

\* ast.arguments: the parameters before "/", the plain positional-or-keyword
\* parameters, *vararg, the keyword-only parameters and **kwarg.  Each list
\* holds the parameters' names (ast.arg.arg); vararg and kwarg hold zero or
\* one name.
arguments(posonlyargs, args, vararg, kwonlyargs, kwarg) ==
    [posonlyargs |-> posonlyargs, args |-> args, vararg |-> vararg,
     kwonlyargs |-> kwonlyargs, kwarg |-> kwarg]

Str_self == <<"s", "e", "l", "f">>

SelfArgs == arguments(<<>>, <<Str_self>>, <<>>, <<>>, <<>>)

\* ast.iter_child_nodes, for the node classes of the model, in field order.
iter_child_nodes(node) ==
    CASE node.k \in {"FunctionDef", "AsyncFunctionDef", "ClassDef"} -> node.body
      [] node.k = "Assign" -> <<node.target, node.value>>
      [] node.k = "AnnAssign" ->
            IF node.value = NoNode
            THEN <<node.target, node.annotation>>
            ELSE <<node.target, node.annotation, node.value>>
      [] node.k = "Call" -> <<node.func>> \o node.args
      [] node.k = "Attribute" -> <<node.value>>
      [] node.k = "Subscript" -> <<node.value, node.slice>>
      [] node.k = "Tuple" -> node.elts
      [] node.k = "UnaryOp" -> <<node.operand>>
      [] OTHER -> <<>>

\* ast.walk: pop the first node of the queue, append its children, yield it.
RECURSIVE walk(_)
walk(todo) ==
    IF todo = <<>> THEN <<>>
    ELSE <<Head(todo)>> \o walk(Tail(todo) \o iter_child_nodes(Head(todo)))

-----------------------------------------------------------------------------
(* _parse_getattr.  Python's node.args[0], [1], [2] are args[1], [2], [3]. *)

IsInit(n) == n.k = "FunctionDef" /\ n.name = Str_init

\* The call is getattr(<config>, "<name>", ...): every test that the loop
\* passes before it reads the name.
is_config_read(node) ==
    /\ node.k = "Call"
    /\ node.func.k = "Name"
    /\ node.func.id = Str_getattr
    /\ Len(node.args) >= 2
    /\ LET arg0 == node.args[1] IN
        \/ arg0.k = "Attribute" /\ arg0.attr = Str_config
        \/ arg0.k = "Name" /\ arg0.id = Str_config
    /\ node.args[2].k = "Constant"
    /\ node.args[2].value.t = "str"

\* The default the loop reads from the call.
getattr_default(node) ==
    IF Len(node.args) > 2 /\ node.args[3].k = "Constant"
    THEN node.args[3].value
    ELSE PyNone

\* A type rule that tests for a number before it tests for a boolean.
getattr_type_number_first(default) ==
    IF isinstance_int_float(default) THEN "number"
    ELSE IF isinstance_bool(default) THEN "boolean"
    ELSE "string"

getattr_type(default) ==
    IF isinstance_bool(default) THEN "boolean"
    ELSE IF isinstance_int_float(default) THEN "number"
    ELSE "string"

\* Python truthiness of a constant: bool(v).
truthy(v) ==
    CASE v.t = "NoneType" -> FALSE
      [] v.t = "str" -> v.s # <<>>
      [] v.t \in {"bool", "int"} -> v.n # 0
      [] OTHER -> TRUE

\* A descriptor that tests the default by truthiness instead of by "is not
\* None".
getattr_field_truthy(name, default) ==
    IF truthy(default)
    THEN [name |-> name, type |-> getattr_type(default),
          label |-> title(replace(name, "_", " ")),
          required |-> TRUE, defaultValue |-> default]
    ELSE [name |-> name, type |-> getattr_type(default),
          label |-> title(replace(name, "_", " ")),
          required |-> FALSE]

\* The descriptor dict; the key defaultValue exists only when it is set.
getattr_field(name, default) ==
    IF is_not_None(default)
    THEN [name |-> name, type |-> getattr_type(default),
          label |-> title(replace(name, "_", " ")),
          required |-> is_not_None(default), defaultValue |-> default]
    ELSE [name |-> name, type |-> getattr_type(default),
          label |-> title(replace(name, "_", " ")),
          required |-> is_not_None(default)]

\* The loop over ast.walk(init): one descriptor appended per accepted call.
RECURSIVE getattr_loop(_)
getattr_loop(nodes) ==
    IF nodes = <<>> THEN <<>>
    ELSE (IF is_config_read(Head(nodes))
          THEN <<getattr_field(Head(nodes).args[2].value.s,
                               getattr_default(Head(nodes)))>>
          ELSE <<>>)
         \o getattr_loop(Tail(nodes))

_parse_getattr(node) ==
    LET inits == SelectSeq(node.body, IsInit) IN
    IF inits = <<>> THEN <<>> ELSE getattr_loop(walk(<<Head(inits)>>))

-----------------------------------------------------------------------------
(* _parse_getattr applied to bounded class definitions. *)

Str_rate == <<"r", "a", "t", "e">>
Str_api_key == <<"a", "p", "i", "_", "k", "e", "y">>
Str_URL == <<"U", "R", "L">>
Str_v2x == <<"v", "2", "x">>
Str_a__bC == <<"_", "a", "_", "_", "b", "C">>
Str_abc == <<"a", "b", "c">>
Str_x == <<"x">>
Str_cfg == <<"c", "f", "g">>
Str_get == <<"g", "e", "t">>
Str_setup == <<"s", "e", "t", "u", "p">>

FieldNames == {Str_rate, Str_api_key, Str_URL, Str_v2x, Str_a__bC}

Literals ==
    { PyBool(TRUE), PyBool(FALSE), PyInt(0), PyInt(10), PyFloat(1),
      PyStr(<<>>), PyStr(Str_abc), PyNone }

GetattrName == Name(Str_getattr)

\* The third argument of a call: absent, a literal, a name, -1, or a call.
ThirdArgs ==
    {<<>>} \cup {<<Constant(v)>> : v \in Literals}
           \cup { <<Name(Str_x)>>, <<UnaryOp(Constant(PyInt(1)))>>,
                  <<Call(GetattrName,
                         <<Name(Str_config), Constant(PyStr(Str_x)), Constant(PyInt(2))>>)>> }

ConfigArgs == {Name(Str_config), Attribute(Name(Str_self), Str_config)}

\* Calls the extractor accepts.
AcceptedCalls ==
    { Call(GetattrName, <<Name(Str_config), Constant(PyStr(Str_rate))>> \o third) :
        third \in ThirdArgs }
    \cup
    { Call(GetattrName, <<arg0, Constant(PyStr(n)), Constant(PyInt(10))>>) :
        arg0 \in ConfigArgs, n \in FieldNames }

\* Calls the extractor passes over: another callee, a method callee, one
\* argument, another object, a non-literal or non-string key.
RejectedCalls ==
    { Call(Name(Str_get), <<Name(Str_config), Constant(PyStr(Str_rate)), Constant(PyInt(1))>>),
      Call(Attribute(Name(Str_self), Str_getattr),
           <<Name(Str_config), Constant(PyStr(Str_rate)), Constant(PyInt(1))>>),
      Call(GetattrName, <<Name(Str_config)>>),
      Call(GetattrName, <<Name(Str_cfg), Constant(PyStr(Str_rate)), Constant(PyInt(1))>>),
      Call(GetattrName, <<Attribute(Name(Str_config), Str_x), Constant(PyStr(Str_rate))>>),
      Call(GetattrName, <<Name(Str_config), Name(Str_x), Constant(PyInt(1))>>),
      Call(GetattrName, <<Name(Str_config), Constant(PyInt(5)), Constant(PyInt(1))>>) }

InitStmts ==
    {Assign(Attribute(Name(Str_self), Str_x), c) : c \in AcceptedCalls \cup RejectedCalls}

\* Classes with an __init__ of up to MaxStmts statements, a class without
\* __init__, a class whose __init__ is async, and a class with two __init__.
GetattrClassNodes ==
    { ClassDef(Str_Foo, <<Name(Str_Sensor)>>, <<>>, <<>>,
               <<FunctionDef(Str_init, SelfArgs, stmts)>>) :
        stmts \in SeqsUpTo(InitStmts, MaxStmts) }
    \cup
    { ClassDef(Str_Foo, <<Name(Str_Sensor)>>, <<>>, <<>>,
               <<FunctionDef(Str_setup, SelfArgs, <<st>>)>>) : st \in InitStmts }
    \cup
    { ClassDef(Str_Foo, <<Name(Str_Sensor)>>, <<>>, <<>>,
               <<AsyncFunctionDef(Str_init, SelfArgs, <<st>>)>>) : st \in InitStmts }
    \cup
    { ClassDef(Str_Foo, <<Name(Str_Sensor)>>, <<>>, <<>>,
               << FunctionDef(Str_setup, SelfArgs, <<>>),
                  FunctionDef(Str_init, SelfArgs, <<st>>),
                  FunctionDef(Str_init, SelfArgs, <<>>) >>) : st \in InitStmts }

GetattrInit ==
    /\ pc = "call"
    /\ class_node \in GetattrClassNodes
    /\ base_classes = Unused
    /\ extends_ret = Unused
    /\ getattr_ret = Unused
    /\ llm_config = Unused
    /\ pydantic_ret = Unused
    /\ fs = Unused
    /\ inputs = Unused
    /\ llms = Unused
    /\ backgrounds = Unused
    /\ actions = Unused
    /\ hooks = Unused

GetattrCall ==
    /\ pc = "call"
    /\ getattr_ret' = _parse_getattr(class_node)
    /\ pc' = "done"
    /\ UNCHANGED <<class_node, base_classes, extends_ret, llm_config,
                   pydantic_ret, fs, inputs, llms, backgrounds, actions, hooks>>

GetattrNext == GetattrCall

SpecGetattr == GetattrInit /\ [][GetattrNext]_vars

\* A field-read call as the extractor's contract describes it.
IsFieldRead(node) ==
    /\ node.k = "Call"
    /\ node.func = Name(Str_getattr)
    /\ Len(node.args) >= 2
    /\ \/ node.args[1] = Name(Str_config)
       \/ node.args[1].k = "Attribute" /\ node.args[1].attr = Str_config
    /\ node.args[2].k = "Constant"
    /\ node.args[2].value.t = "str"

\* The field-read calls of the class's first __init__, in visiting order.
FieldReads(node) ==
    LET inits == SelectSeq(node.body, IsInit) IN
    IF inits = <<>> THEN <<>> ELSE SelectSeq(walk(<<Head(inits)>>), IsFieldRead)

HasThird(call) == Len(call.args) > 2

HasLiteralThird(call) == HasThird(call) /\ call.args[3].k = "Constant"

HasKey(d, key) == key \in DOMAIN d

OneDescriptorPerFieldRead ==
    Len(getattr_ret) = Len(FieldReads(class_node))

\* C2 as stated: required and defaultValue exactly when the third argument is
\* a literal, the literal None included.
C2_DefaultIffLiteralThird ==
    pc = "done" =>
        /\ OneDescriptorPerFieldRead
        /\ \A i \in DOMAIN getattr_ret :
            LET call == FieldReads(class_node)[i]
                d == getattr_ret[i]
            IN IF HasLiteralThird(call)
               THEN /\ d.required = TRUE
                    /\ HasKey(d, "defaultValue")
                    /\ d.defaultValue = call.args[3].value
               ELSE d.required = FALSE /\ ~HasKey(d, "defaultValue")

\* C2 amended: required and defaultValue exactly when the third argument is a
\* literal other than None (False, 0 and the empty string included); with no
\* third argument, a non-literal one or the literal None, required is false
\* and there is no defaultValue key.
C2_DefaultIffNonNoneLiteralThird ==
    pc = "done" =>
        /\ OneDescriptorPerFieldRead
        /\ \A i \in DOMAIN getattr_ret :
            LET call == FieldReads(class_node)[i]
                d == getattr_ret[i]
            IN IF HasLiteralThird(call) /\ call.args[3].value # PyNone
               THEN /\ d.required = TRUE
                    /\ HasKey(d, "defaultValue")
                    /\ d.defaultValue = call.args[3].value
               ELSE d.required = FALSE /\ ~HasKey(d, "defaultValue")

\* Reached: one class read by getattr(config, "rate", False) and by
\* getattr(config, "rate", None); the first descriptor is required with
\* defaultValue False, the second is not required.
C2_Witness ==
    /\ pc = "done"
    /\ Len(getattr_ret) = 2
    /\ HasLiteralThird(FieldReads(class_node)[1])
    /\ HasLiteralThird(FieldReads(class_node)[2])
    /\ FieldReads(class_node)[1].args[3] = Constant(PyBool(FALSE))
    /\ FieldReads(class_node)[2].args[3] = Constant(PyNone)
    /\ getattr_ret[1].required
    /\ getattr_ret[1].defaultValue = PyBool(FALSE)
    /\ ~getattr_ret[2].required

\* The label of a field name, character by character: an underscore becomes
\* a space; a letter is upper-cased when it starts the name or follows a
\* non-letter, and lower-cased when it follows a letter; other characters
\* are kept.
IsLabelOf(label, name) ==
    /\ Len(label) = Len(name)
    /\ \A i \in DOMAIN name :
        IF name[i] = "_" THEN label[i] = " "
        ELSE IF i = 1 \/ ~iscased(name[i - 1]) THEN label[i] = upper(name[i])
        ELSE label[i] = lower(name[i])

\* C8: the type is boolean for a boolean literal default, number for an
\* integer or float literal default, string otherwise (no default, non-literal
\* default, other literals); the label is the title-cased name with
\* underscores as spaces; "rate" with default 10 gives number and "Rate".
C8_TypeAndLabel ==
    pc = "done" =>
        /\ OneDescriptorPerFieldRead
        /\ \A i \in DOMAIN getattr_ret :
            LET call == FieldReads(class_node)[i]
                d == getattr_ret[i]
                lit == IF HasLiteralThird(call) THEN call.args[3].value.t ELSE "none"
            IN /\ d.name = call.args[2].value.s
               /\ d.type = (CASE lit = "bool" -> "boolean"
                              [] lit \in {"int", "float"} -> "number"
                              [] OTHER -> "string")
               /\ IsLabelOf(d.label, d.name)
               /\ (d.name = Str_rate /\ lit = "int" /\ call.args[3].value.n = 10)
                    => /\ d.type = "number"
                       /\ d.label = <<"R", "a", "t", "e">>

\* Reached: getattr(config, "rate", True) typed boolean, followed by
\* getattr(self.config, "api_key", 10) typed number and labelled "Api Key".
C8_Witness ==
    /\ pc = "done"
    /\ Len(getattr_ret) = 2
    /\ getattr_ret[1].name = Str_rate
    /\ HasKey(getattr_ret[1], "defaultValue")
    /\ getattr_ret[1].defaultValue = PyBool(TRUE)
    /\ getattr_ret[1].type = "boolean"
    /\ getattr_ret[2].name = Str_api_key
    /\ getattr_ret[2].type = "number"
    /\ getattr_ret[2].label = <<"A", "p", "i", " ", "K", "e", "y">>

-----------------------------------------------------------------------------
(* Files.  open() followed by ast.parse() either raises (parses = FALSE:   *)
(* unreadable file, a directory, a syntax error) or returns the module,    *)
(* whose body is the list of top-level statements.                         *)

\* os.path.exists(path) is false.
NoFile == [exists |-> FALSE, parses |-> FALSE, body |-> <<>>]

SourceFile(body) == [exists |-> TRUE, parses |-> TRUE, body |-> body]

BrokenFile == [exists |-> TRUE, parses |-> FALSE, body |-> <<>>]

-----------------------------------------------------------------------------
(* _annotation_to_type, _get_pydantic_default, _parse_pydantic_class.      *)
(* annotation.slice is the subscript expression itself (Python 3.9 on).    *)

\* A rule that maps every subscripted annotation to "object" and every
\* unrecognized annotation to "object".
_annotation_to_type_object_else(annotation) ==
    IF annotation.k = "Name" /\ annotation.id \in {Str_str, Str_string}
    THEN "string"
    ELSE IF annotation.k = "Name" /\ annotation.id \in {Str_int, Str_float}
    THEN "number"
    ELSE IF annotation.k = "Name" /\ annotation.id = Str_bool
    THEN "boolean"
    ELSE "object"

_annotation_to_type(annotation) ==
    IF annotation = NoNode THEN "string"
    ELSE IF annotation.k = "Subscript" THEN
        IF annotation.slice.k = "Name" /\ annotation.slice.id \in {Str_str, Str_string}
        THEN "string"
        ELSE IF annotation.slice.k = "Name" /\ annotation.slice.id \in {Str_int, Str_float}
        THEN "number"
        ELSE IF annotation.slice.k = "Name" /\ annotation.slice.id = Str_bool
        THEN "boolean"
        ELSE "object"
    ELSE IF annotation.k = "Name" /\ annotation.id \in {Str_str, Str_string}
    THEN "string"
    ELSE IF annotation.k = "Name" /\ annotation.id \in {Str_int, Str_float}
    THEN "number"
    ELSE IF annotation.k = "Name" /\ annotation.id = Str_bool
    THEN "boolean"
    ELSE "string"

\* The sentinel is the Python string "__SKIP__".
_get_pydantic_default(value_node) ==
    IF value_node = NoNode THEN PyNone
    ELSE IF value_node.k = "Constant" THEN value_node.value
    ELSE IF value_node.k = "Call" THEN PyStr(Str_SKIP)
    ELSE PyNone

pydantic_default(item) ==
    IF item.value # NoNode THEN _get_pydantic_default(item.value) ELSE PyNone

pydantic_field(item, default) ==
    IF is_not_None(default)
    THEN [name |-> item.target.id, type |-> _annotation_to_type(item.annotation),
          label |-> title(replace(item.target.id, "_", " ")),
          required |-> is_not_None(default), defaultValue |-> default]
    ELSE [name |-> item.target.id, type |-> _annotation_to_type(item.annotation),
          label |-> title(replace(item.target.id, "_", " ")),
          required |-> is_not_None(default)]

\* The loop over the class body.
RECURSIVE pydantic_loop(_)
pydantic_loop(items) ==
    IF items = <<>> THEN <<>>
    ELSE LET item == Head(items) IN
         (IF ~(item.k = "AnnAssign" /\ item.target.k = "Name") THEN <<>>
          ELSE IF startswith(item.target.id, <<"_">>) \/ item.target.id = Str_model_config
          THEN <<>>
          ELSE IF pydantic_default(item) = PyStr(Str_SKIP) THEN <<>>
          ELSE <<pydantic_field(item, pydantic_default(item))>>)
         \o pydantic_loop(Tail(items))

\* The loop over tree.body stops at the first class named class_name.
RECURSIVE pydantic_find(_, _)
pydantic_find(class_name, body) ==
    IF body = <<>> THEN <<>>
    ELSE IF Head(body).k = "ClassDef" /\ Head(body).name = class_name
    THEN pydantic_loop(Head(body).body)
    ELSE pydantic_find(class_name, Tail(body))

\* file is the file at file_path.  A failure of open() or ast.parse()
\* happens before any field is appended, and is caught.
_parse_pydantic_class(class_name, file) ==
    IF ~file.exists THEN <<>>
    ELSE IF ~file.parses THEN <<>>
    ELSE pydantic_find(class_name, file.body)

-----------------------------------------------------------------------------
(* _parse_pydantic_class applied to bounded files. *)

Str_Optional == <<"O", "p", "t", "i", "o", "n", "a", "l">>
Str_List == <<"L", "i", "s", "t">>
Str_Dict == <<"D", "i", "c", "t">>
Str_Any == <<"A", "n", "y">>
Str_Field == <<"F", "i", "e", "l", "d">>
Str__x == <<"_", "x">>
Str_BaseModel == <<"B", "a", "s", "e", "M", "o", "d", "e", "l">>

Annotations ==
    { Name(Str_str), Name(Str_string), Name(Str_int), Name(Str_float),
      Name(Str_bool), Name(Str_Foo), Attribute(Name(Str_T), Str_Any),
      Subscript(Name(Str_Optional), Name(Str_str)),
      Subscript(Attribute(Name(Str_T), Str_Optional), Name(Str_int)),
      Subscript(Name(Str_Optional), Name(Str_bool)),
      Subscript(Name(Str_List), Name(Str_str)),
      Subscript(Name(Str_List), Name(Str_Foo)),
      Subscript(Name(Str_Dict), TupleExpr(<<Name(Str_str), Name(Str_int)>>)),
      Subscript(Name(Str_Optional), Subscript(Name(Str_List), Name(Str_str))) }

\* The value of an annotated attribute: absent, a literal (the text
\* "__SKIP__" among them), a call, a name, -1.
DefaultNodes ==
    {NoNode} \cup {Constant(v) : v \in Literals \cup {PyStr(Str_SKIP)}}
             \cup { Call(Name(Str_Field), <<>>), Name(Str_x),
                    UnaryOp(Constant(PyInt(1))) }

ClassItems ==
    { AnnAssign(Name(Str_rate), a, NoNode) : a \in Annotations }
    \cup { AnnAssign(Name(Str_api_key), Name(Str_str), v) : v \in DefaultNodes }
    \cup { AnnAssign(Name(n), Name(Str_int), Constant(PyInt(10))) :
            n \in {Str_rate, Str__x, Str_model_config, Str_URL} }
    \cup { AnnAssign(Attribute(Name(Str_self), Str_x), Name(Str_int), NoNode),
           Assign(Name(Str_x), Constant(PyInt(1))),
           FunctionDef(Str_setup, SelfArgs, <<>>) }

LLMConfigClass(items) ==
    ClassDef(Str_LLMConfig, <<Name(Str_BaseModel)>>, <<>>, <<>>, items)

\* llm/__init__.py: absent, unparsable, without the class, with the class
\* after another statement, or with two classes of that name.
PydanticFiles ==
    { SourceFile(<<Assign(Name(Str_x), Constant(PyInt(1))), LLMConfigClass(items)>>) :
        items \in SeqsUpTo(ClassItems, MaxItems) }
    \cup
    { SourceFile(<<LLMConfigClass(<<i1>>), LLMConfigClass(<<i2>>)>>) :
        i1 \in {AnnAssign(Name(Str_rate), Name(Str_int), NoNode)},
        i2 \in {AnnAssign(Name(Str_URL), Name(Str_str), NoNode)} }
    \cup
    { NoFile, BrokenFile,
      SourceFile(<<ClassDef(Str_Foo, <<>>, <<>>, <<>>,
                            <<AnnAssign(Name(Str_rate), Name(Str_int), NoNode)>>)>>) }

PydanticInit ==
    /\ pc = "call"
    /\ class_node = Unused
    /\ base_classes = Unused
    /\ extends_ret = Unused
    /\ getattr_ret = Unused
    /\ llm_config \in PydanticFiles
    /\ pydantic_ret = Unused
    /\ fs = Unused
    /\ inputs = Unused
    /\ llms = Unused
    /\ backgrounds = Unused
    /\ actions = Unused
    /\ hooks = Unused

PydanticCall ==
    /\ pc = "call"
    /\ pydantic_ret' = _parse_pydantic_class(Str_LLMConfig, llm_config)
    /\ pc' = "done"
    /\ UNCHANGED <<class_node, base_classes, extends_ret, getattr_ret,
                   llm_config, fs, inputs, llms, backgrounds, actions, hooks>>

PydanticNext == PydanticCall

SpecPydantic == PydanticInit /\ [][PydanticNext]_vars

IsNamedClass(n) == n.k = "ClassDef" /\ n.name = Str_LLMConfig

\* The statements of the first top-level class named LLMConfig.
DeclaredItems(file) ==
    LET cs == SelectSeq(file.body, IsNamedClass) IN
    IF cs = <<>> THEN <<>> ELSE Head(cs).body

\* An annotated attribute that the contract keeps: a plain name that neither
\* starts with an underscore nor is model_config, whose default is no call.
IsKeptAttribute(item) ==
    /\ item.k = "AnnAssign"
    /\ item.target.k = "Name"
    /\ item.target.id[1] # "_"
    /\ item.target.id # Str_model_config
    /\ item.value.k # "Call"

\* A kept attribute whose default is not the text "__SKIP__".
IsRecordedAttribute(item) ==
    IsKeptAttribute(item) /\ item.value # Constant(PyStr(Str_SKIP))

NamesOf(ds) == [i \in DOMAIN ds |-> ds[i].name]

TargetsOf(items) == [i \in DOMAIN items |-> items[i].target.id]

\* C4: one descriptor, in declaration order, for each annotated attribute
\* that is not underscore-prefixed, not model_config and has no call default;
\* an attribute with a literal default, whatever its value, is kept.
C4_OneDescriptorPerKeptAttribute ==
    pc = "done" =>
        NamesOf(pydantic_ret) = TargetsOf(SelectSeq(DeclaredItems(llm_config), IsKeptAttribute))

IsPrimitiveName(e) ==
    e.k = "Name" /\ e.id \in {Str_str, Str_string, Str_int, Str_float, Str_bool}

PrimitiveType(id) ==
    CASE id \in {Str_str, Str_string} -> "string"
      [] id \in {Str_int, Str_float} -> "number"
      [] id = Str_bool -> "boolean"

-----------------------------------------------------------------------------
(* Directories.  os.listdir yields the entries in the order of the list.  *)
(* An entry of a plugin, connector or hook directory is a name and the    *)
(* file behind it; an entry of the actions directory is a name, whether   *)
(* it is a directory, and its "connector" subdirectory.  A connector path *)
(* that exists is a directory.                                            *)

\* os.path.exists(directory) is false.
NoDir == [exists |-> FALSE, entries |-> <<>>]

Directory(entries) == [exists |-> TRUE, entries |-> entries]

DirEntry(name, file) == [name |-> name, file |-> file]

ActionEntry(name, isdir, connector) ==
    [name |-> name, isdir |-> isdir, connector |-> connector]

IsPyFile(e) == endswith(e.name, Str_dot_py) /\ e.name # Str_init_py

_py_files(directory) == SelectSeq(directory.entries, IsPyFile)

\* os.path.basename(filepath)[:-3]
basename_stem(name) == SubSeq(name, 1, Len(name) - 3)

-----------------------------------------------------------------------------
(* _scan_plugins: scan_inputs and scan_backgrounds. *)

\* The loop over tree.body.
RECURSIVE plugin_classes(_, _, _)
plugin_classes(body, markers, category) ==
    IF body = <<>> THEN <<>>
    ELSE (IF Head(body).k = "ClassDef" /\ _extends(Head(body), markers)
          THEN <<[type |-> Head(body).name, category |-> category,
                  fields |-> _parse_getattr(Head(body)),
                  description |-> get_docstring(Head(body))]>>
          ELSE <<>>)
         \o plugin_classes(Tail(body), markers, category)

\* The try block of one file: a failure of open() or ast.parse() is caught
\* before the file has appended anything.
plugin_file(entry, markers, category) ==
    IF ~entry.file.parses THEN <<>>
    ELSE plugin_classes(entry.file.body, markers, category)

\* A loop that a failing file ends: the try block around the whole loop.
RECURSIVE plugins_loop_abort(_, _, _)
plugins_loop_abort(files, markers, category) ==
    IF files = <<>> THEN <<>>
    ELSE IF ~Head(files).file.parses THEN <<>>
    ELSE plugin_file(Head(files), markers, category)
         \o plugins_loop_abort(Tail(files), markers, category)

\* The loop over the files of the directory.
RECURSIVE plugins_loop(_, _, _)
plugins_loop(files, markers, category) ==
    IF files = <<>> THEN <<>>
    ELSE plugin_file(Head(files), markers, category)
         \o plugins_loop(Tail(files), markers, category)

_scan_plugins(directory, markers, category) ==
    IF ~directory.exists THEN <<>>
    ELSE plugins_loop(_py_files(directory), markers, category)

scan_inputs(tree) == _scan_plugins(tree.inputs_dir, InputMarkers, "input")

scan_backgrounds(tree) ==
    _scan_plugins(tree.backgrounds_dir, BackgroundMarkers, "background")

-----------------------------------------------------------------------------
(* scan_llms.  A Python dict keeps its keys in first-insertion order; an  *)
(* assignment to an existing key replaces the value in place.             *)

\* fields[f["name"]] = f
dict_set(d, f) ==
    IF \E i \in DOMAIN d : d[i].name = f.name
    THEN [i \in DOMAIN d |-> IF d[i].name = f.name THEN f ELSE d[i]]
    ELSE Append(d, f)

\* d after fields[f["name"]] = f for every f of fs_, in order.
RECURSIVE dict_update(_, _)
dict_update(d, fs_) ==
    IF fs_ = <<>> THEN d ELSE dict_update(dict_set(d, Head(fs_)), Tail(fs_))

\* A merge in which the base descriptors are written last.
llm_fields_base_last(base_fields, node) ==
    dict_update(dict_update(<<>>, _parse_getattr(node)), base_fields)

\* list(fields.values()) for one class.
llm_fields(base_fields, node) ==
    dict_update(dict_update(<<>>, base_fields), _parse_getattr(node))

RECURSIVE llm_classes(_, _)
llm_classes(body, base_fields) ==
    IF body = <<>> THEN <<>>
    ELSE (IF Head(body).k = "ClassDef" /\ _extends(Head(body), LlmMarkers)
          THEN <<[type |-> Head(body).name, category |-> "llm",
                  fields |-> llm_fields(base_fields, Head(body)),
                  description |-> get_docstring(Head(body))]>>
          ELSE <<>>)
         \o llm_classes(Tail(body), base_fields)

llm_file(entry, base_fields) ==
    IF ~entry.file.parses THEN <<>>
    ELSE llm_classes(entry.file.body, base_fields)

RECURSIVE llms_loop(_, _)
llms_loop(files, base_fields) ==
    IF files = <<>> THEN <<>>
    ELSE llm_file(Head(files), base_fields) \o llms_loop(Tail(files), base_fields)

scan_llms(tree, config) ==
    IF ~tree.llm_dir.exists THEN <<>>
    ELSE llms_loop(_py_files(tree.llm_dir),
                   _parse_pydantic_class(Str_LLMConfig, config))

-----------------------------------------------------------------------------
(* scan_actions *)

\* A type name that takes the directory name whenever the connector name
\* contains "default".
action_type_contains(action_name, connector) ==
    IF Contains(Str_default, connector) THEN action_name
    ELSE action_name \o <<"_">> \o connector

action_type(action_name, connector) ==
    IF connector = Str_default THEN action_name
    ELSE action_name \o <<"_">> \o connector

RECURSIVE connector_classes(_, _, _)
connector_classes(body, action_name, connector) ==
    IF body = <<>> THEN <<>>
    ELSE (IF Head(body).k = "ClassDef" /\ _extends_connector(Head(body))
          THEN <<[type |-> action_type(action_name, connector),
                  category |-> "action",
                  fields |-> _parse_getattr(Head(body)),
                  description |-> get_docstring(Head(body)),
                  action_name |-> action_name,
                  connector_name |-> connector]>>
          ELSE <<>>)
         \o connector_classes(Tail(body), action_name, connector)

connector_file(entry, action_name) ==
    IF ~entry.file.parses THEN <<>>
    ELSE connector_classes(entry.file.body, action_name, basename_stem(entry.name))

RECURSIVE connectors_loop(_, _)
connectors_loop(files, action_name) ==
    IF files = <<>> THEN <<>>
    ELSE connector_file(Head(files), action_name)
         \o connectors_loop(Tail(files), action_name)

\* The loop over os.listdir(actions_dir).
RECURSIVE actions_loop(_)
actions_loop(entries) ==
    IF entries = <<>> THEN <<>>
    ELSE LET e == Head(entries) IN
         (IF ~e.isdir \/ e.name = Str_pycache THEN <<>>
          ELSE IF ~e.connector.exists THEN <<>>
          ELSE connectors_loop(_py_files(e.connector), e.name))
         \o actions_loop(Tail(entries))

scan_actions(tree) ==
    IF ~tree.actions_dir.exists THEN <<>>
    ELSE actions_loop(tree.actions_dir.entries)

-----------------------------------------------------------------------------
(* scan_hooks *)

hook_function(node) == [name |-> node.name, args |-> node.args.args]

IsAsyncDef(n) == n.k = "AsyncFunctionDef"

\* A scan that records the async functions found anywhere in the module.
hook_functions_walk(body) ==
    LET found == SelectSeq(walk(body), IsAsyncDef) IN
    [i \in DOMAIN found |-> hook_function(found[i])]

\* The loop over tree.body.
hook_functions(body) ==
    LET found == SelectSeq(body, IsAsyncDef) IN
    [i \in DOMAIN found |-> hook_function(found[i])]

hook_file(entry) ==
    IF ~entry.file.parses THEN <<>>
    ELSE IF hook_functions(entry.file.body) # <<>>
    THEN <<[module |-> basename_stem(entry.name),
            functions |-> hook_functions(entry.file.body)]>>
    ELSE <<>>

RECURSIVE hooks_loop(_)
hooks_loop(files) ==
    IF files = <<>> THEN <<>>
    ELSE hook_file(Head(files)) \o hooks_loop(Tail(files))

scan_hooks(tree) ==
    IF ~tree.hooks_dir.exists THEN <<>>
    ELSE hooks_loop(_py_files(tree.hooks_dir))

-----------------------------------------------------------------------------
(* Source trees for generate(). *)

Str_a_dot_py == <<"a", ".", "p", "y">>
Str_b_dot_py == <<"b", ".", "p", "y">>
Str_bad_dot_py == <<"b", "a", "d", ".", "p", "y">>
Str_notes_dot_txt == <<"n", "o", "t", "e", "s", ".", "t", "x", "t">>
Str_bg_dot_py == <<"b", "g", ".", "p", "y">>
Str_x_dot_py == <<"x", ".", "p", "y">>
Str_y_dot_py == <<"y", ".", "p", "y">>
Str_h_dot_py == <<"h", ".", "p", "y">>
Str_n_dot_py == <<"n", ".", "p", "y">>
Str_p_dot_py == <<"p", ".", "p", "y">>
Str_e_dot_py == <<"e", ".", "p", "y">>
Str_ros2_dot_py == <<"r", "o", "s", "2", ".", "p", "y">>
Str_xdefault == <<"x">> \o Str_default
Str_xdefault_dot_py == Str_xdefault \o Str_dot_py
Str_default_dot_py == Str_default \o Str_dot_py
Str_speak == <<"s", "p", "e", "a", "k">>
Str_move == <<"m", "o", "v", "e">>
Str_README == <<"R", "E", "A", "D", "M", "E">>
Str_tools == <<"t", "o", "o", "l", "s">>
Str_ActionConnector == <<"A", "c", "t", "i", "o", "n", "C", "o", "n", "n", "e", "c", "t", "o", "r">>
Str_SpeakConnector == <<"S", "p", "e", "a", "k", "C", "o", "n", "n", "e", "c", "t", "o", "r">>
Str_A == <<"A">>
Str_B == <<"B">>
Str_C == <<"C">>
Str_D == <<"D">>
Str_G == <<"G">>
Str_X == <<"X">>
Str_Y == <<"Y">>
Str_S == <<"S">>
Str_R == <<"R">>
Str_K == <<"K">>
Str_model == <<"m", "o", "d", "e", "l">>
Str_timeout == <<"t", "i", "m", "e", "o", "u", "t">>
Str_on_start == <<"o", "n", "_", "s", "t", "a", "r", "t">>
Str_on_stop == <<"o", "n", "_", "s", "t", "o", "p">>
Str_helper == <<"h", "e", "l", "p", "e", "r">>
Str_outer == <<"o", "u", "t", "e", "r">>
Str_inner == <<"i", "n", "n", "e", "r">>
Str_m == <<"m">>
Str_ctx == <<"c", "t", "x">>
Str_a == <<"a">>
Str_b == <<"b">>
Str_args == <<"a", "r", "g", "s">>
Str_kw == <<"k", "w">>
Str_f == <<"f">>
Str_g == <<"g">>
Str_doc == <<"d", "o", "c">>

\* getattr(config, "<name>", <third>) assigned to an attribute of self.
ReadStmt(name, third) ==
    Assign(Attribute(Name(Str_self), Str_x),
           Call(GetattrName, <<Name(Str_config), Constant(PyStr(name))>> \o third))

InitOf(stmts) == FunctionDef(Str_init, SelfArgs, stmts)

\* class A(Sensor): reads rate twice and api_key once.
ClassA ==
    ClassDef(Str_A, <<Name(Str_Sensor)>>, <<>>, Str_doc,
             <<InitOf(<< ReadStmt(Str_rate, <<Constant(PyInt(10))>>),
                         ReadStmt(Str_api_key, <<>>),
                         ReadStmt(Str_rate, <<Constant(PyStr(Str_abc))>>) >>)>>)

\* class B(FuserInput[T]): reads URL.
ClassB ==
    ClassDef(Str_B, <<Subscript(Name(Str_FuserInput), Name(Str_T))>>, <<>>, <<>>,
             <<InitOf(<<ReadStmt(Str_URL, <<Constant(PyBool(TRUE))>>)>>)>>)

\* class C(Foo): no marker base.
ClassC ==
    ClassDef(Str_C, <<Name(Str_Foo)>>, <<>>, <<>>,
             <<InitOf(<<ReadStmt(Str_rate, <<Constant(PyInt(0))>>)>>)>>)

\* class D(Sensor): no __init__.
ClassD == ClassDef(Str_D, <<Name(Str_Sensor)>>, <<>>, <<>>, <<>>)

\* class G(Background): reads rate twice.
ClassG ==
    ClassDef(Str_G, <<Name(Str_Background)>>, <<>>, <<>>,
             <<InitOf(<< ReadStmt(Str_rate, <<Constant(PyFloat(1))>>),
                         ReadStmt(Str_rate, <<>>) >>)>>)

\* class X(LLM): reads rate twice and api_key once.
ClassX ==
    ClassDef(Str_X, <<Name(Str_LLM)>>, <<>>, Str_doc,
             <<InitOf(<< ReadStmt(Str_rate, <<Constant(PyInt(10))>>),
                         ReadStmt(Str_api_key, <<>>),
                         ReadStmt(Str_rate, <<Constant(PyBool(TRUE))>>) >>)>>)

\* class Y(LLM[T]): no __init__.
ClassY ==
    ClassDef(Str_Y, <<Subscript(Name(Str_LLM), Name(Str_T))>>, <<>>, <<>>, <<>>)

\* class S(ActionConnector[T]): reads rate.
ClassS ==
    ClassDef(Str_S, <<Subscript(Name(Str_ActionConnector), Name(Str_T))>>, <<>>, <<>>,
             <<InitOf(<<ReadStmt(Str_rate, <<Constant(PyInt(10))>>)>>)>>)

\* class R(SpeakConnector): reads URL twice.
ClassR ==
    ClassDef(Str_R, <<Name(Str_SpeakConnector)>>, <<>>, <<>>,
             <<InitOf(<< ReadStmt(Str_URL, <<>>),
                         ReadStmt(Str_URL, <<Constant(PyStr(Str_abc))>>) >>)>>)

InputEntries ==
    { DirEntry(Str_a_dot_py, SourceFile(<<ClassA>>)),
      DirEntry(Str_b_dot_py, SourceFile(<<ClassC, ClassB, ClassD>>)),
      DirEntry(Str_bad_dot_py, BrokenFile),
      DirEntry(Str_init_py, SourceFile(<<ClassA>>)),
      DirEntry(Str_notes_dot_txt, SourceFile(<<ClassA>>)) }

BackgroundEntries ==
    { DirEntry(Str_bg_dot_py, SourceFile(<<ClassG>>)),
      DirEntry(Str_a_dot_py, SourceFile(<<ClassA>>)),
      DirEntry(Str_bad_dot_py, BrokenFile) }

LlmEntries ==
    { DirEntry(Str_x_dot_py, SourceFile(<<ClassX>>)),
      DirEntry(Str_y_dot_py, SourceFile(<<ClassA, ClassY>>)),
      DirEntry(Str_bad_dot_py, BrokenFile),
      DirEntry(Str_init_py, SourceFile(<<ClassX>>)) }

\* llm/__init__.py: model, rate and timeout (a call default), model_config.
DefaultLlmConfig ==
    SourceFile(<<LLMConfigClass(
        << AnnAssign(Name(Str_model_config), Name(Str_Dict), NoNode),
           AnnAssign(Name(Str_model), Subscript(Name(Str_Optional), Name(Str_str)),
                     Constant(PyStr(Str_abc))),
           AnnAssign(Name(Str_rate), Name(Str_int), NoNode),
           AnnAssign(Name(Str_timeout), Name(Str_int), Call(Name(Str_Field), <<>>)) >>)>>)

\* The same with model declared a second time, after rate.
RepeatingLlmConfig ==
    SourceFile(<<LLMConfigClass(
        << AnnAssign(Name(Str_model), Name(Str_str), NoNode),
           AnnAssign(Name(Str_rate), Name(Str_float), Constant(PyFloat(1))),
           AnnAssign(Name(Str_model), Name(Str_str), Constant(PyStr(Str_abc))) >>)>>)

LlmConfigs == {DefaultLlmConfig, RepeatingLlmConfig, NoFile, BrokenFile}

ConnectorEntries ==
    { DirEntry(Str_default_dot_py, SourceFile(<<ClassS>>)),
      DirEntry(Str_ros2_dot_py, SourceFile(<<ClassC, ClassR>>)),
      DirEntry(Str_xdefault_dot_py, SourceFile(<<ClassA, ClassS>>)),
      DirEntry(Str_bad_dot_py, BrokenFile),
      DirEntry(Str_init_py, SourceFile(<<ClassS>>)) }

\* An action directory with a connector directory.
ActionDirs ==
    { ActionEntry(n, TRUE, Directory(files)) :
        n \in {Str_speak, Str_move}, files \in SeqsUpTo(ConnectorEntries, MaxFiles) }

SpeakDir ==
    ActionEntry(Str_speak, TRUE,
                Directory(<< DirEntry(Str_default_dot_py, SourceFile(<<ClassS>>)),
                             DirEntry(Str_ros2_dot_py, SourceFile(<<ClassR>>)) >>))

\* Entries that the scan skips: __pycache__, a plain file, a directory
\* without a connector directory.
PycacheDir ==
    ActionEntry(Str_pycache, TRUE,
                Directory(<<DirEntry(Str_default_dot_py, SourceFile(<<ClassS>>))>>))

PlainFile == ActionEntry(Str_README, FALSE, NoDir)

NoConnectorDir == ActionEntry(Str_tools, TRUE, NoDir)

ActionsDirs ==
    { Directory(pre \o <<e>> \o post) :
        pre \in {<<>>, <<PycacheDir, PlainFile>>, <<SpeakDir>>},
        e \in ActionDirs,
        post \in {<<>>, <<NoConnectorDir>>} }
    \cup {NoDir, Directory(<<>>)}

AsyncDef(name, args) == AsyncFunctionDef(name, args, <<>>)

PlainArgs(names) == arguments(<<>>, names, <<>>, <<>>, <<>>)

HookEntries ==
    { \* async def on_start(ctx); def helper()
      DirEntry(Str_h_dot_py,
               SourceFile(<< AsyncDef(Str_on_start, PlainArgs(<<Str_ctx>>)),
                             FunctionDef(Str_helper, PlainArgs(<<>>), <<>>) >>)),
      \* def outer(): async def inner(x);  class K: async def m(self)
      DirEntry(Str_n_dot_py,
               SourceFile(<< FunctionDef(Str_outer, PlainArgs(<<>>),
                                         <<AsyncDef(Str_inner, PlainArgs(<<Str_x>>))>>),
                             ClassDef(Str_K, <<>>, <<>>, <<>>,
                                      <<AsyncDef(Str_m, PlainArgs(<<Str_self>>))>>) >>)),
      \* async def f(a, /, b, *args, x, **kw); async def g(ctx, x)
      DirEntry(Str_p_dot_py,
               SourceFile(<< AsyncDef(Str_f, arguments(<<Str_a>>, <<Str_b>>, <<Str_args>>,
                                                       <<Str_x>>, <<Str_kw>>)),
                             Assign(Name(Str_x), Constant(PyInt(1))),
                             AsyncDef(Str_g, PlainArgs(<<Str_ctx, Str_x>>)) >>)),
      DirEntry(Str_e_dot_py, SourceFile(<<>>)),
      DirEntry(Str_bad_dot_py, BrokenFile),
      DirEntry(Str_init_py, SourceFile(<<AsyncDef(Str_on_stop, PlainArgs(<<>>))>>)) }

Listings(entries) == {NoDir} \cup {Directory(l) : l \in SeqsUpTo(entries, MaxFiles)}

\* The tree whose every category holds one fixed listing.
DefaultTree ==
    [ inputs_dir |-> Directory(<<DirEntry(Str_a_dot_py, SourceFile(<<ClassA>>))>>),
      llm_dir |-> Directory(<<DirEntry(Str_x_dot_py, SourceFile(<<ClassX>>))>>),
      backgrounds_dir |-> Directory(<<DirEntry(Str_bg_dot_py, SourceFile(<<ClassG>>))>>),
      actions_dir |-> Directory(<<SpeakDir>>),
      hooks_dir |-> Directory(<<>>) ]

\* The trees explored: the default tree with one category's directory
\* replaced by each bounded listing of that category.
Trees ==
    {[DefaultTree EXCEPT !.inputs_dir = d] : d \in Listings(InputEntries)}
    \cup {[DefaultTree EXCEPT !.llm_dir = d] : d \in Listings(LlmEntries)}
    \cup {[DefaultTree EXCEPT !.backgrounds_dir = d] : d \in Listings(BackgroundEntries)}
    \cup {[DefaultTree EXCEPT !.actions_dir = d] : d \in ActionsDirs}
    \cup {[DefaultTree EXCEPT !.hooks_dir = d] : d \in Listings(HookEntries)}

-----------------------------------------------------------------------------
(* generate(): the five scans in order. *)

Init ==
    /\ pc = "scan_inputs"
    /\ fs \in Trees
    /\ llm_config \in
        IF fs.llm_dir = DefaultTree.llm_dir /\ fs # DefaultTree
        THEN {DefaultLlmConfig} ELSE LlmConfigs
    /\ class_node = Unused
    /\ base_classes = Unused
    /\ extends_ret = Unused
    /\ getattr_ret = Unused
    /\ pydantic_ret = Unused
    /\ inputs = Unused
    /\ llms = Unused
    /\ backgrounds = Unused
    /\ actions = Unused
    /\ hooks = Unused

ScanInputs ==
    /\ pc = "scan_inputs"
    /\ inputs' = scan_inputs(fs)
    /\ pc' = "scan_llms"
    /\ UNCHANGED <<class_node, base_classes, extends_ret, getattr_ret, llm_config,
                   pydantic_ret, fs, llms, backgrounds, actions, hooks>>

ScanLlms ==
    /\ pc = "scan_llms"
    /\ llms' = scan_llms(fs, llm_config)
    /\ pc' = "scan_backgrounds"
    /\ UNCHANGED <<class_node, base_classes, extends_ret, getattr_ret, llm_config,
                   pydantic_ret, fs, inputs, backgrounds, actions, hooks>>

ScanBackgrounds ==
    /\ pc = "scan_backgrounds"
    /\ backgrounds' = scan_backgrounds(fs)
    /\ pc' = "scan_actions"
    /\ UNCHANGED <<class_node, base_classes, extends_ret, getattr_ret, llm_config,
                   pydantic_ret, fs, inputs, llms, actions, hooks>>

ScanActions ==
    /\ pc = "scan_actions"
    /\ actions' = scan_actions(fs)
    /\ pc' = "scan_hooks"
    /\ UNCHANGED <<class_node, base_classes, extends_ret, getattr_ret, llm_config,
                   pydantic_ret, fs, inputs, llms, backgrounds, hooks>>

ScanHooks ==
    /\ pc = "scan_hooks"
    /\ hooks' = scan_hooks(fs)
    /\ pc' = "done"
    /\ UNCHANGED <<class_node, base_classes, extends_ret, getattr_ret, llm_config,
                   pydantic_ret, fs, inputs, llms, backgrounds, actions>>

Next ==
    \/ ScanInputs
    \/ ScanLlms
    \/ ScanBackgrounds
    \/ ScanActions
    \/ ScanHooks

Spec == Init /\ [][Next]_vars

-----------------------------------------------------------------------------
(* Properties of generate(). *)

PcOrder ==
    <<"scan_inputs", "scan_llms", "scan_backgrounds", "scan_actions",
      "scan_hooks", "done">>

PcIndex(p) == CHOOSE i \in DOMAIN PcOrder : PcOrder[i] = p

\* The scan at position p has returned.
After(p) == PcIndex(pc) > PcIndex(p)

FileParses(e) == e.file.parses

IsParsedPyFile(e) ==
    /\ endswith(e.name, Str_dot_py)
    /\ e.name # Str_init_py
    /\ e.file.parses

IsClassDef(n) == n.k = "ClassDef"

\* The top-level classes of the given files, in scanning order.
RECURSIVE ClassesOf(_)
ClassesOf(files) ==
    IF files = <<>> THEN <<>>
    ELSE SelectSeq(Head(files).file.body, IsClassDef) \o ClassesOf(Tail(files))

IsInputClass(n) == MatchingBases(n, InputMarkers) # {}

IsBackgroundClass(n) == MatchingBases(n, BackgroundMarkers) # {}

IsLlmClass(n) == MatchingBases(n, LlmMarkers) # {}

\* The classes a plugin directory contributes, in scanning order.
InputClasses ==
    SelectSeq(ClassesOf(SelectSeq(fs.inputs_dir.entries, IsParsedPyFile)), IsInputClass)

BackgroundClasses ==
    SelectSeq(ClassesOf(SelectSeq(fs.backgrounds_dir.entries, IsParsedPyFile)),
              IsBackgroundClass)

LlmClasses ==
    SelectSeq(ClassesOf(SelectSeq(fs.llm_dir.entries, IsParsedPyFile)), IsLlmClass)

UniqueNames(fields) ==
    \A i, j \in DOMAIN fields : fields[i].name = fields[j].name => i = j

NameSet(fields) == {fields[i].name : i \in DOMAIN fields}

\* The last descriptor of ds that carries the name.
LastOfName(ds, name) ==
    ds[CHOOSE i \in DOMAIN ds :
        /\ ds[i].name = name
        /\ \A j \in DOMAIN ds : ds[j].name = name => j <= i]

\* The fields are the descriptors of the class's field reads collapsed by
\* name, the last read of a name deciding its descriptor.
IsCollapsed(fields, node) ==
    /\ UniqueNames(fields)
    /\ NameSet(fields) = NameSet(_parse_getattr(node))
    /\ \A i \in DOMAIN fields :
        fields[i] = LastOfName(_parse_getattr(node), fields[i].name)

\* C1: every component of scan_inputs, scan_backgrounds, scan_actions and
\* scan_llms holds at most one descriptor per field name, and for a name read
\* several times that descriptor is the one of the last read visited.
C1_OneDescriptorPerName ==
    /\ After("scan_inputs") =>
        /\ Len(inputs) = Len(InputClasses)
        /\ \A i \in DOMAIN inputs : IsCollapsed(inputs[i].fields, InputClasses[i])
    /\ After("scan_llms") =>
        \A i \in DOMAIN llms : UniqueNames(llms[i].fields)
    /\ After("scan_backgrounds") =>
        /\ Len(backgrounds) = Len(BackgroundClasses)
        /\ \A i \in DOMAIN backgrounds :
            IsCollapsed(backgrounds[i].fields, BackgroundClasses[i])
    /\ After("scan_actions") =>
        \A i \in DOMAIN actions : UniqueNames(actions[i].fields)

\* The listing without the entries whose file fails to open or parse.
WithoutFailing(directory) ==
    [directory EXCEPT !.entries = SelectSeq(@, FileParses)]

\* The tree without every failing file of every scanned directory.
CleanTree(tree) ==
    [ inputs_dir |-> WithoutFailing(tree.inputs_dir),
      llm_dir |-> WithoutFailing(tree.llm_dir),
      backgrounds_dir |-> WithoutFailing(tree.backgrounds_dir),
      actions_dir |->
          [tree.actions_dir EXCEPT !.entries =
              [i \in DOMAIN @ |-> [@[i] EXCEPT !.connector = WithoutFailing(@)]]],
      hooks_dir |-> WithoutFailing(tree.hooks_dir) ]

\* llm/__init__.py, absent when it fails to open or parse.
CleanConfig(config) == IF config.exists /\ ~config.parses THEN NoFile ELSE config

\* C5: in every category scan a file that fails contributes no entry, the
\* files after it are still processed, and the result is the one the scan
\* gives with the failing files absent.
C5_FailingFileContributesNothing ==
    /\ After("scan_inputs") => inputs = scan_inputs(CleanTree(fs))
    /\ After("scan_llms") => llms = scan_llms(CleanTree(fs), CleanConfig(llm_config))
    /\ After("scan_backgrounds") => backgrounds = scan_backgrounds(CleanTree(fs))
    /\ After("scan_actions") => actions = scan_actions(CleanTree(fs))
    /\ After("scan_hooks") => hooks = scan_hooks(CleanTree(fs))

\* Reached: the inputs listing is bad.py (failing) then a.py, and scan_inputs
\* has returned the one component of a.py, class A.
C5_Witness ==
    /\ After("scan_inputs")
    /\ fs.inputs_dir.exists
    /\ Len(fs.inputs_dir.entries) = 2
    /\ fs.inputs_dir.entries[1] = DirEntry(Str_bad_dot_py, BrokenFile)
    /\ fs.inputs_dir.entries[2].name = Str_a_dot_py
    /\ Len(inputs) = 1
    /\ inputs[1].type = Str_A

\* The base descriptors scan_llms starts every component from.
BaseFields == _parse_pydantic_class(Str_LLMConfig, llm_config)

\* The names some class of the files reads with the field-read idiom.
RECURSIVE NamesRead(_)
NamesRead(classes) ==
    IF classes = <<>> THEN {}
    ELSE NameSet(_parse_getattr(Head(classes))) \cup NamesRead(Tail(classes))

RECURSIVE ConnectorFiles(_)
ConnectorFiles(entries) ==
    IF entries = <<>> THEN <<>>
    ELSE Head(entries).connector.entries \o ConnectorFiles(Tail(entries))

\* C6: the fields of every scan_llms component have unique names, which are
\* the base names together with the class's own names; a name of both carries
\* the class's descriptor; no other category holds a base field.
C6_LlmFieldsMergeBase ==
    /\ After("scan_llms") =>
        /\ Len(llms) = Len(LlmClasses)
        /\ \A i \in DOMAIN llms :
            LET own == _parse_getattr(LlmClasses[i])
                fields == llms[i].fields
            IN /\ UniqueNames(fields)
               /\ NameSet(fields) = NameSet(BaseFields) \cup NameSet(own)
               /\ \A j \in DOMAIN fields :
                    IF fields[j].name \in NameSet(own)
                    THEN fields[j] = LastOfName(own, fields[j].name)
                    ELSE fields[j] \in Range(BaseFields)
    /\ After("scan_inputs") =>
        \A i \in DOMAIN inputs :
            NameSet(inputs[i].fields)
                \subseteq NamesRead(ClassesOf(fs.inputs_dir.entries))
    /\ After("scan_backgrounds") =>
        \A i \in DOMAIN backgrounds :
            NameSet(backgrounds[i].fields)
                \subseteq NamesRead(ClassesOf(fs.backgrounds_dir.entries))
    /\ After("scan_actions") =>
        \A i \in DOMAIN actions :
            NameSet(actions[i].fields)
                \subseteq NamesRead(ClassesOf(ConnectorFiles(fs.actions_dir.entries)))

\* Reached: class X, which reads rate (last with default True) and api_key,
\* merged with the base fields model and rate: model first, then rate with
\* the class's boolean descriptor, then api_key.
C6_Witness ==
    /\ After("scan_actions")
    /\ llm_config = DefaultLlmConfig
    /\ Len(llms) = 1
    /\ llms[1].type = Str_X
    /\ NamesOf(llms[1].fields) = <<Str_model, Str_rate, Str_api_key>>
    /\ llms[1].fields[2].type = "boolean"
    /\ BaseFields[2].type = "number"
    /\ Len(inputs) > 0

\* C9: every scan_actions entry comes from a connector file F.py of an action
\* directory D; action_name is D, connector_name is F, type is D when F is
\* "default" and D_F otherwise; speak with default.py and ros2.py gives
\* speak and speak_ros2.
C9_ActionTypeNames ==
    After("scan_actions") =>
        /\ \A i \in DOMAIN actions :
            LET e == actions[i] IN
            /\ \E d \in Range(fs.actions_dir.entries) :
                /\ d.isdir
                /\ d.name = e.action_name
                /\ \E f \in Range(d.connector.entries) :
                    /\ f.name = e.connector_name \o Str_dot_py
                    /\ \E n \in Range(f.file.body) :
                        n.k = "ClassDef" /\ get_docstring(n) = e.description
            /\ e.type = IF e.connector_name = Str_default
                        THEN e.action_name
                        ELSE e.action_name \o <<"_">> \o e.connector_name
        /\ fs.actions_dir = Directory(<<SpeakDir>>) =>
            [i \in DOMAIN actions |-> actions[i].type]
                = << Str_speak, Str_speak \o <<"_", "r", "o", "s", "2">> >>

\* Reached: directory move with xdefault.py then default.py, giving the
\* types move_xdefault and move.
C9_Witness ==
    /\ After("scan_actions")
    /\ Len(actions) = 2
    /\ actions[1].action_name = Str_move
    /\ actions[1].connector_name = Str_xdefault
    /\ actions[1].type = Str_move \o <<"_">> \o Str_xdefault
    /\ actions[2].connector_name = Str_default
    /\ actions[2].type = Str_move

HasTopLevelAsync(e) == \E n \in Range(e.file.body) : n.k = "AsyncFunctionDef"

\* The hook modules that parse and declare a top-level async function.
HookModules ==
    SelectSeq(SelectSeq(fs.hooks_dir.entries, IsParsedPyFile), HasTopLevelAsync)

\* Every positional parameter: those before "/" and the plain ones.
PositionalParams(def) == def.args.posonlyargs \o def.args.args

\* The plain positional-or-keyword parameters only.
PositionalOrKeywordParams(def) == def.args.args

\* hooks holds one entry per hook module with a top-level async function,
\* listing these functions in source order, each with its name and either
\* all its positional parameters or only the positional-or-keyword ones.
HooksRecorded(with_positional_only) ==
    /\ Len(hooks) = Len(HookModules)
    /\ \A i \in DOMAIN hooks :
        LET defs == SelectSeq(HookModules[i].file.body, IsAsyncDef) IN
        /\ hooks[i].module \o Str_dot_py = HookModules[i].name
        /\ Len(hooks[i].functions) = Len(defs)
        /\ \A j \in DOMAIN defs :
            /\ hooks[i].functions[j].name = defs[j].name
            /\ hooks[i].functions[j].args =
                IF with_positional_only THEN PositionalParams(defs[j])
                ELSE PositionalOrKeywordParams(defs[j])

\* C10 as stated: each top-level async function is recorded with the ordered
\* list of its positional parameter names.
C10_HooksListPositionalParams ==
    After("scan_hooks") => HooksRecorded(TRUE)

\* C10 amended: each top-level async function, and no other, is recorded in
\* source order with its name and the ordered names of its positional-or-
\* keyword parameters (not those before "/", *args, keyword-only or **kwargs);
\* a module has an entry iff it has at least one such function.
C10_HooksListPlainParams ==
    After("scan_hooks") => HooksRecorded(FALSE)

\* Reached: n.py (only nested async functions) then p.py, which declares
\* async def f(a, /, b, *args, x, **kw) and async def g(ctx, x); the only
\* entry is module p with f(b) and g(ctx, x).
C10_Witness ==
    /\ After("scan_hooks")
    /\ Len(fs.hooks_dir.entries) = 2
    /\ fs.hooks_dir.entries[1].name = Str_n_dot_py
    /\ fs.hooks_dir.entries[2].name = Str_p_dot_py
    /\ hooks = <<[module |-> <<"p">>,
                  functions |-> << [name |-> Str_f, args |-> <<Str_b>>],
                                   [name |-> Str_g, args |-> <<Str_ctx, Str_x>>] >>]>>

====
